---- MODULE Spec2Model ----
(***************************************************************************)
(* CFO-Copilot: the currency normalisation / ledger unification of         *)
(* agent/data_loader.py and the metric functions of agent/metrics.py.      *)
(*                                                                         *)
(* Numbers.  A pandas float is a record [k, n, d]:                         *)
(*   k = "num"  the exact rational n/d (d > 0),                           *)
(*   k = "nan", "inf", "-inf"  the IEEE special values,                   *)
(*   k = "none" Python's None, k = "str" a descriptive string.            *)
(* Floating-point rounding error is not modelled: arithmetic is exact.     *)
(* Strings that the code takes apart (account_category) are sequences of   *)
(* one-character strings.  Months are period ordinals 1, 2, ...            *)
(* query is the question text handed to agent/planner.py.                  *)
(***************************************************************************)
EXTENDS Integers, Sequences, FiniteSets, TLC

VARIABLES fx, actuals, budget, combined, cash, query, pc, result

vars == <<fx, actuals, budget, combined, cash, query, pc, result>>

(* ------------------------------ bounds -------------------------------- *)
MaxFx == 2
MaxRaw == 2
MaxLedger == 3
MaxTrendRows == 3
MaxN == 3
MaxOpexRows == 3
MaxCash == 4
MaxMetricsRows == 1

(* ------------------------------ numbers ------------------------------- *)
Num(a) == [k |-> "num", n |-> a, d |-> 1]
Rat(a, b) == [k |-> "num", n |-> a, d |-> b]
NaN == [k |-> "nan", n |-> 0, d |-> 1]
PosInf == [k |-> "inf", n |-> 0, d |-> 1]
NegInf == [k |-> "-inf", n |-> 0, d |-> 1]
None == [k |-> "none", n |-> 0, d |-> 1]

IsNum(x) == x.k = "num"
isna(x) == x.k = "nan"

Abs(a) == IF a < 0 THEN -a ELSE a
Sign(a) == IF a < 0 THEN -1 ELSE IF a > 0 THEN 1 ELSE 0
Min(a, b) == IF a < b THEN a ELSE b

\* x * y on floats; NaN propagates (actuals["amount"] * actuals["rate_to_usd"]).
FMul(x, y) ==
  IF IsNum(x) /\ IsNum(y) THEN Rat(x.n * y.n, x.d * y.d) ELSE NaN

\* x - y for a finite y; inf - y is inf and NaN - y is NaN.
FSub(x, y) == IF IsNum(x) THEN Rat(x.n * y.d - y.n * x.d, x.d * y.d) ELSE x

FNeg(x) == IF IsNum(x) THEN Rat(-x.n, x.d) ELSE x

\* x / y as numpy divides: a / 0 is +inf, -inf or NaN, never an error.
FDiv(x, y) ==
  IF ~(IsNum(x) /\ IsNum(y)) THEN NaN
  ELSE IF y.n = 0
       THEN (IF x.n > 0 THEN PosInf ELSE IF x.n < 0 THEN NegInf ELSE NaN)
       ELSE Rat(x.n * y.d * Sign(y.n), x.d * Abs(y.n))

FScale(x, c) == IF IsNum(x) THEN Rat(x.n * c, x.d) ELSE x

FEq(x, y) == IsNum(x) /\ IsNum(y) /\ x.n * y.d = y.n * x.d
FIsZero(x) == IsNum(x) /\ x.n = 0
FLeqZero(x) == IsNum(x) /\ x.n <= 0

Pow10(e) == IF e = 0 THEN 1 ELSE IF e = 1 THEN 10 ELSE 100

\* a / b (b > 0) rounded to the nearest integer, ties to even.
RoundHalfEven(a, b) ==
  LET q == a \div b
      r == a % b
  IN  IF 2 * r < b THEN q
      ELSE IF 2 * r > b THEN q + 1
      ELSE IF q % 2 = 0 THEN q ELSE q + 1

\* round(x, digits): NaN and the infinities round to themselves.
round(x, digits) ==
  IF IsNum(x) THEN Rat(RoundHalfEven(x.n * Pow10(digits), x.d), Pow10(digits))
  ELSE x

(* ----------------------------- sequences ------------------------------ *)
SeqsUpTo(S, n) == UNION {[1..k -> S] : k \in 0..n}

RECURSIVE SumSkipNa(_, _)
\* Series.sum(): skipna=True, so missing values are skipped and the sum of
\* nothing is 0.  The amounts are whole numbers (d = 1).
SumSkipNa(s, i) ==
  IF i > Len(s) THEN 0
  ELSE (IF IsNum(s[i].amount_usd) THEN s[i].amount_usd.n ELSE 0) + SumSkipNa(s, i + 1)

sum(s) == Num(SumSkipNa(s, 1))

\* The first n rows instead of the last n.
head(s, n) == IF n >= Len(s) THEN s ELSE SubSeq(s, 1, n)

\* DataFrame.tail(n): the last n rows; tail(0) is empty.
tail(s, n) ==
  IF n = 0 THEN <<>>
  ELSE IF n >= Len(s) THEN s
  ELSE SubSeq(s, Len(s) - n + 1, Len(s))

RECURSIVE SortAsc(_)
\* The members of a set of months in ascending order (groupby sorts its keys).
SortAsc(S) ==
  IF S = {} THEN <<>>
  ELSE LET m == CHOOSE x \in S : \A y \in S : x <= y
       IN  <<m>> \o SortAsc(S \ {m})

(* ------------------------------ strings ------------------------------- *)
\* str.startswith
startswith(s, p) == Len(s) >= Len(p) /\ SubSeq(s, 1, Len(p)) = p

\* DataFrame.filter(like=sub): the name contains sub anywhere.
Contains(s, sub) ==
  \E i \in 0..(Len(s) - Len(sub)) : SubSeq(s, i + 1, i + Len(sub)) = sub

Revenue == <<"R", "e", "v", "e", "n", "u", "e">>
COGS == <<"C", "O", "G", "S">>
Opex == <<"O", "p", "e", "x">>

(* --------------------------- raw input tables ------------------------- *)
Months == {1, 2}
Currencies == {"USD", "EUR"}
Rates == {1, 2}
RawAmounts == {5}

FxRows == [month : Months, currency : Currencies, rate_to_usd : Rates]
RawRows == [month : Months, entity : {"E"}, account_category : {Revenue},
            currency : Currencies, amount : RawAmounts]

(* ------------------------------ load_data ----------------------------- *)
\* The distinct months of a rate table, in order of first appearance
\* (fx["month"].unique()).
RECURSIVE unique(_, _, _)
unique(t, i, seen) ==
  IF i > Len(t) THEN <<>>
  ELSE IF t[i].month \in seen THEN unique(t, i + 1, seen)
  ELSE <<t[i].month>> \o unique(t, i + 1, seen \cup {t[i].month})

\* "Ensure USD is present in FX table": rows are appended only when no row
\* of the whole table is (USD, 1.0).
normalize_fx(t) ==
  IF ~(\E i \in 1..Len(t) : t[i].currency = "USD" /\ t[i].rate_to_usd = 1)
  THEN LET usd_months == unique(t, 1, {})
       IN  t \o [j \in 1..Len(usd_months) |->
                   [month |-> usd_months[j], currency |-> "USD", rate_to_usd |-> 1]]
  ELSE t

\* One left row joined to the rate table on (month, currency), how="left":
\* one output row per matching rate row, in the rate table's order, and one
\* row with a missing rate when nothing matches.
RECURSIVE MatchRow(_, _, _, _)
MatchRow(row, t, j, type) ==
  IF j > Len(t) THEN <<>>
  ELSE (IF t[j].month = row.month /\ t[j].currency = row.currency
        THEN <<[month |-> row.month, entity |-> row.entity,
                account_category |-> row.account_category, type |-> type,
                amount_usd |-> FMul(Num(row.amount), Num(t[j].rate_to_usd))]>>
        ELSE <<>>) \o MatchRow(row, t, j + 1, type)

RECURSIVE merge(_, _, _, _)
merge(left, t, i, type) ==
  IF i > Len(left) THEN <<>>
  ELSE LET m == MatchRow(left[i], t, 1, type)
       IN  (IF m = <<>>
            THEN <<[month |-> left[i].month, entity |-> left[i].entity,
                    account_category |-> left[i].account_category, type |-> type,
                    amount_usd |-> FMul(Num(left[i].amount), NaN)]>>
            ELSE m) \o merge(left, t, i + 1, type)

\* The unified ledger: converted actuals followed by converted budget.
unify(a, b, t) == merge(a, t, 1, "actual") \o merge(b, t, 1, "budget")

(* ------------------------- get_revenue_vs_budget ---------------------- *)
\* The percentage taken over the actual total instead of the budget total.
get_revenue_vs_budget_overActual(combined_df, month) ==
  LET IsActual(r) == r.month = month /\ r.account_category = Revenue /\ r.type = "actual"
      IsBudget(r) == r.month = month /\ r.account_category = Revenue /\ r.type = "budget"
      actual == sum(SelectSeq(combined_df, IsActual))
      budget_ == sum(SelectSeq(combined_df, IsBudget))
      variance == FSub(actual, budget_)
      variance_pct == IF actual.n # 0 THEN FScale(FDiv(variance, actual), 100) ELSE None
  IN  [op |-> "revenue_vs_budget", month |-> month,
       actual |-> round(actual, 2), budget |-> round(budget_, 2),
       variance |-> round(variance, 2),
       variance_pct |-> IF variance_pct.k # "none" THEN round(variance_pct, 2) ELSE None]

get_revenue_vs_budget(combined_df, month) ==
  LET IsActual(r) == r.month = month /\ r.account_category = Revenue /\ r.type = "actual"
      IsBudget(r) == r.month = month /\ r.account_category = Revenue /\ r.type = "budget"
      actual == sum(SelectSeq(combined_df, IsActual))
      budget_ == sum(SelectSeq(combined_df, IsBudget))
      variance == FSub(actual, budget_)
      variance_pct == IF budget_.n # 0 THEN FScale(FDiv(variance, budget_), 100) ELSE None
  IN  [op |-> "revenue_vs_budget", month |-> month,
       actual |-> round(actual, 2), budget |-> round(budget_, 2),
       variance |-> round(variance, 2),
       variance_pct |-> IF variance_pct.k # "none" THEN round(variance_pct, 2) ELSE None]

(* ------------------------------ actions ------------------------------- *)
\* pc: "raw" (sheets read), "loaded" (load_data has returned), "answered"
\* (one metric has been computed into result).  The metric functions are
\* pure, so a behaviour holds one call: a second call on the same tables
\* computes what a first call would.
NoResult == [op |-> "none"]

\* load_data: normalise the rate table, convert and unify the ledger.
LoadData ==
  /\ pc = "raw"
  /\ fx' = normalize_fx(fx)
  /\ combined' = unify(actuals, budget, normalize_fx(fx))
  /\ pc' = "loaded"
  /\ UNCHANGED <<actuals, budget, cash, query, result>>

RevenueVsBudget ==
  /\ pc = "loaded"
  /\ \E m \in Months : result' = get_revenue_vs_budget(combined, m)
  /\ pc' = "answered"
  /\ UNCHANGED <<fx, actuals, budget, combined, cash, query>>

Init ==
  /\ fx \in SeqsUpTo(FxRows, MaxFx)
  /\ actuals \in SeqsUpTo(RawRows, MaxRaw)
  /\ budget \in SeqsUpTo(RawRows, MaxRaw)
  /\ Len(actuals) + Len(budget) <= MaxRaw
  /\ combined = <<>>
  /\ cash = <<>>
  /\ query = <<>>
  /\ pc = "raw"
  /\ result = NoResult

Next == LoadData \/ RevenueVsBudget

Spec == Init /\ [][Next]_vars

(* ----------------- revenue_vs_budget over drawn ledgers ---------------- *)
\* Ledger rows as load_data produces them: whole amounts, or a missing
\* amount where the rate join missed.
RevenueKinds == {<<Revenue, "actual">>, <<Revenue, "budget">>, <<COGS, "actual">>}
RevenueAmounts == {Num(-1), Num(1), Num(3), NaN}

RevenueLedgerRows ==
  {[month |-> m, entity |-> "E", account_category |-> kd[1], type |-> kd[2],
    amount_usd |-> a] : m \in Months, kd \in RevenueKinds, a \in RevenueAmounts}

InitRevenue ==
  /\ fx = <<>> /\ actuals = <<>> /\ budget = <<>> /\ cash = <<>>
  /\ query = <<>>
  /\ combined \in SeqsUpTo(RevenueLedgerRows, MaxLedger)
  /\ pc = "loaded"
  /\ result = NoResult

NextRevenue == RevenueVsBudget

SpecRevenue == InitRevenue /\ [][NextRevenue]_vars

(* ------------------------------ trends -------------------------------- *)
\* df[df["type"] == "actual"]
ActualRows(df) == LET IsActual(r) == r.type = "actual" IN SelectSeq(df, IsActual)

\* The index of groupby(...).sum().unstack(): the months that have rows.
GroupMonths(df) == SortAsc({df[i].month : i \in 1..Len(df)})

\* One cell of the unstacked summary: the group's sum, 0 for an absent group
\* (fill_value=0) or an absent column (summary.get(c, 0)).
Cell(df, m, c) ==
  LET InGroup(r) == r.month = m /\ r.account_category = c
  IN  sum(SelectSeq(df, InGroup))

\* Series.replace([pd.NA, float("inf")], 0): +inf becomes 0 and -inf stays.
\* Whether pd.NA in the list also matches a float NaN depends on the pandas
\* version: naOut is what a NaN comes out as (NaN or 0).
replace(x, naOut) ==
  IF x.k = "inf" THEN Num(0)
  ELSE IF x.k = "nan" THEN naOut
  ELSE x

NaOutcomes == {NaN, Num(0)}

get_gross_margin_trend(combined_df, n_months, naOut) ==
  LET df == ActualRows(combined_df)
      months == GroupMonths(df)
      trend == [i \in 1..Len(months) |->
                 LET revenue == Cell(df, months[i], Revenue)
                     cogs == Cell(df, months[i], COGS)
                 IN  [month |-> months[i], revenue |-> revenue, cogs |-> cogs,
                      gm_pct |-> replace(FScale(FDiv(FSub(revenue, cogs), revenue), 100),
                                         naOut)]]
  IN  [op |-> "gross_margin_trend", n |-> n_months, rows |-> tail(trend, n_months)]

get_ebitda_trend(combined_df, n_months) ==
  LET df == ActualRows(combined_df)
      months == GroupMonths(df)
      trend == [i \in 1..Len(months) |->
                 LET revenue == Cell(df, months[i], Revenue)
                     cogs == Cell(df, months[i], COGS)
                     IsOpex(r) == r.month = months[i] /\ Contains(r.account_category, Opex)
                     opex == sum(SelectSeq(df, IsOpex))
                 IN  [month |-> months[i], revenue |-> revenue, cogs |-> cogs,
                      opex |-> opex, ebitda |-> FSub(FSub(revenue, cogs), opex)]]
  IN  [op |-> "ebitda_trend", n |-> n_months, rows |-> tail(trend, n_months)]

\* Series.pct_change() * 100 at position i of the per-month totals.
pct_change(totals, i) ==
  IF i = 1 THEN NaN
  ELSE FScale(FSub(FDiv(totals[i], totals[i - 1]), Num(1)), 100)

\* The growth computed inside the returned window only.
get_revenue_growth_afterTail(combined_df, n_months) ==
  LET IsRev(r) == r.type = "actual" /\ r.account_category = Revenue
      df == SelectSeq(combined_df, IsRev)
      months == tail(GroupMonths(df), n_months)
      totals == [i \in 1..Len(months) |-> Cell(df, months[i], Revenue)]
      revenue == [i \in 1..Len(months) |->
                   [month |-> months[i], amount_usd |-> totals[i],
                    growth_pct |-> pct_change(totals, i)]]
  IN  [op |-> "revenue_growth", n |-> n_months, rows |-> revenue]

get_revenue_growth(combined_df, n_months) ==
  LET IsRev(r) == r.type = "actual" /\ r.account_category = Revenue
      df == SelectSeq(combined_df, IsRev)
      months == GroupMonths(df)
      totals == [i \in 1..Len(months) |-> Cell(df, months[i], Revenue)]
      revenue == [i \in 1..Len(months) |->
                   [month |-> months[i], amount_usd |-> totals[i],
                    growth_pct |-> pct_change(totals, i)]]
  IN  [op |-> "revenue_growth", n |-> n_months, rows |-> tail(revenue, n_months)]

GrossMarginTrend ==
  /\ pc = "loaded"
  /\ \E n \in 0..MaxN : \E naOut \in NaOutcomes :
       result' = get_gross_margin_trend(combined, n, naOut)
  /\ pc' = "answered"
  /\ UNCHANGED <<fx, actuals, budget, combined, cash, query>>

EbitdaTrend ==
  /\ pc = "loaded"
  /\ \E n \in 0..MaxN : result' = get_ebitda_trend(combined, n)
  /\ pc' = "answered"
  /\ UNCHANGED <<fx, actuals, budget, combined, cash, query>>

RevenueGrowth ==
  /\ pc = "loaded"
  /\ \E n \in 0..MaxN : result' = get_revenue_growth(combined, n)
  /\ pc' = "answered"
  /\ UNCHANGED <<fx, actuals, budget, combined, cash, query>>

TrendMonths == {1, 2, 3}

TrendLedgerRows ==
  {[month |-> m, entity |-> "E", account_category |-> Revenue, type |-> "actual",
    amount_usd |-> a] : m \in TrendMonths, a \in {Num(2), Num(4), NaN}}
  \cup
  {[month |-> m, entity |-> "E", account_category |-> COGS, type |-> "actual",
    amount_usd |-> Num(a)] : m \in TrendMonths, a \in {-1, 0, 2}}
  \cup
  {[month |-> m, entity |-> "E", account_category |-> Revenue, type |-> "budget",
    amount_usd |-> Num(2)] : m \in TrendMonths}

InitTrend ==
  /\ fx = <<>> /\ actuals = <<>> /\ budget = <<>> /\ cash = <<>>
  /\ query = <<>>
  /\ combined \in SeqsUpTo(TrendLedgerRows, MaxTrendRows)
  /\ pc = "loaded"
  /\ result = NoResult

NextTrend == GrossMarginTrend \/ EbitdaTrend \/ RevenueGrowth

SpecTrend == InitTrend /\ [][NextTrend]_vars

(* --------------------------- opex_breakdown --------------------------- *)
Colon == ":"

\* The label of a row whose account_category has no second segment: str[1]
\* of a one-element list is missing (NaN), and groupby drops missing keys.
NaLabel == <<"<NaN>">>

RECURSIVE split(_, _, _, _)
\* str.split(sep): the segments of s between separators; cur is the segment
\* being read from position i.
split(s, sep, i, cur) ==
  IF i > Len(s) THEN <<cur>>
  ELSE IF s[i] = sep THEN <<cur>> \o split(s, sep, i + 1, <<>>)
  ELSE split(s, sep, i + 1, Append(cur, s[i]))

\* account_category.str.split(":").str[1]
category_of(account_category) ==
  LET parts == split(account_category, Colon, 1, <<>>)
  IN  IF Len(parts) >= 2 THEN parts[2] ELSE NaLabel

\* Lexicographic order of strings by character rank, for groupby's key order.
CharRank(c) ==
  CASE c = ":" -> 1 [] c = "A" -> 2 [] c = "B" -> 3 [] c = "O" -> 4
    [] c = "e" -> 5 [] c = "p" -> 6 [] c = "t" -> 7 [] c = "x" -> 8
    [] OTHER -> 9

RECURSIVE StrLess(_, _)
StrLess(a, b) ==
  IF b = <<>> THEN FALSE
  ELSE IF a = <<>> THEN TRUE
  ELSE IF CharRank(Head(a)) # CharRank(Head(b)) THEN CharRank(Head(a)) < CharRank(Head(b))
  ELSE StrLess(Tail(a), Tail(b))

RECURSIVE SortKeys(_)
SortKeys(S) ==
  IF S = {} THEN <<>>
  ELSE LET m == CHOOSE x \in S : \A y \in S \ {x} : StrLess(x, y)
       IN  <<m>> \o SortKeys(S \ {m})

\* The orders sort_values("amount_usd", ascending=False) may return: the
\* default quicksort is not stable, so rows of equal amount come in any order.
sort_values_desc(rows) ==
  LET n == Len(rows)
      perms == {p \in [1..n -> 1..n] : \A i \in 1..n : \A j \in 1..n : i # j => p[i] # p[j]}
  IN  {[i \in 1..n |-> rows[p[i]]] : p \in
         {q \in perms : \A i \in 1..n : \A j \in 1..n :
            i < j => rows[q[i]].amount_usd.n >= rows[q[j]].amount_usd.n}}

\* The breakdown before the final sort: one row per non-missing label, in
\* key order.
opex_groups(combined_df, month) ==
  LET IsOpex(r) == /\ r.month = month
                   /\ r.type = "actual"
                   /\ startswith(r.account_category, Opex)
      df == SelectSeq(combined_df, IsOpex)
      keys == SortKeys({category_of(df[i].account_category) : i \in 1..Len(df)} \ {NaLabel})
  IN  [g \in 1..Len(keys) |->
         LET InGroup(r) == category_of(r.account_category) = keys[g]
         IN  [category |-> keys[g], amount_usd |-> sum(SelectSeq(df, InGroup))]]

\* The results get_opex_breakdown may return.
get_opex_breakdown(combined_df, month) ==
  {[op |-> "opex_breakdown", month |-> month, rows |-> rows] :
     rows \in sort_values_desc(opex_groups(combined_df, month))}

OpexBreakdown ==
  /\ pc = "loaded"
  /\ \E m \in Months : result' \in get_opex_breakdown(combined, m)
  /\ pc' = "answered"
  /\ UNCHANGED <<fx, actuals, budget, combined, cash, query>>

OpexA == Opex \o <<":", "A">>
OpexB == Opex \o <<":", "B">>
OpexAB == Opex \o <<":", "A", ":", "B">>
OpexOther == Opex \o <<"O", "t">>

OpexCategories == {OpexA, OpexB, OpexAB, OpexOther, Opex, Revenue}

OpexLedgerRows ==
  {[month |-> m, entity |-> "E", account_category |-> c, type |-> "actual",
    amount_usd |-> Num(a)] : m \in Months, c \in OpexCategories, a \in {1, 2}}
  \cup
  {[month |-> m, entity |-> "E", account_category |-> OpexA, type |-> "budget",
    amount_usd |-> Num(1)] : m \in Months}

InitOpex ==
  /\ fx = <<>> /\ actuals = <<>> /\ budget = <<>> /\ cash = <<>>
  /\ query = <<>>
  /\ combined \in SeqsUpTo(OpexLedgerRows, MaxOpexRows)
  /\ pc = "loaded"
  /\ result = NoResult

NextOpex == OpexBreakdown

SpecOpex == InitOpex /\ [][NextOpex]_vars


(* ----------------------------- cash runway ---------------------------- *)
RunwayWindow == 3

\* "∞ (profitable / not burning)"
NotBurning == [k |-> "str", n |-> 0, d |-> 1]

\* Every order of the rows of a short sequence.
Orderings(g) ==
  LET n == Len(g)
      perms == {p \in [1..n -> 1..n] : \A i \in 1..n : \A j \in 1..n : i # j => p[i] # p[j]}
  IN  {[i \in 1..n |-> g[p[i]]] : p \in perms}

RECURSIVE MonthOrders(_, _, _)
\* The rows of t month by month from months[i] on, each month's rows in
\* every order.
MonthOrders(t, months, i) ==
  IF i > Len(months) THEN {<<>>}
  ELSE LET InMonth(r) == r.month = months[i]
       IN  {a \o b : a \in Orderings(SelectSeq(t, InMonth)),
                     b \in MonthOrders(t, months, i + 1)}

\* The orders cash_df.sort_values("month") may return: ascending by month,
\* rows of the same month in any order (the default quicksort is not stable).
sort_values_month(t) == MonthOrders(t, GroupMonths(t), 1)

\* cash_df["cash_usd"].diff(): row minus previous row, missing for the first.
diff(t) ==
  [i \in 1..Len(t) |->
     IF i = 1 THEN NaN ELSE FSub(t[i].cash_usd, t[i - 1].cash_usd)]

RECURSIVE SumNums(_, _)
SumNums(s, i) ==
  IF i > Len(s) THEN 0
  ELSE (IF IsNum(s[i]) THEN s[i].n ELSE 0) + SumNums(s, i + 1)

\* Series.mean(): missing values are skipped; the mean of nothing is NaN.
mean(s) ==
  LET IsDefined(x) == IsNum(x)
      cnt == Len(SelectSeq(s, IsDefined))
  IN  IF cnt = 0 THEN NaN ELSE Rat(SumNums(s, 1), cnt)

\* get_cash_runway on the sorted stream; iloc[-1] of an empty frame raises.
get_cash_runway(cash_df) ==
  IF Len(cash_df) = 0
  THEN [op |-> "cash_runway", raised |-> "IndexError"]
  ELSE LET latest == cash_df[Len(cash_df)]
           cash_now == latest.cash_usd
           recent_deltas == tail(diff(cash_df), RunwayWindow)
           avg_burn == FNeg(mean(recent_deltas))
       IN  IF FLeqZero(avg_burn) \/ isna(avg_burn)
           THEN [op |-> "cash_runway", latest_month |-> latest.month,
                 cash_now |-> cash_now, avg_burn |-> Num(0),
                 runway_months |-> NotBurning]
           ELSE [op |-> "cash_runway", latest_month |-> latest.month,
                 cash_now |-> cash_now, avg_burn |-> avg_burn,
                 runway_months |-> round(FDiv(cash_now, avg_burn), 1)]

\* get_burn_multiple on the sorted stream.
get_burn_multiple(combined_df, cash_df, n_months) ==
  LET rev_trend == get_revenue_growth(combined_df, n_months + 1).rows
  IN  IF Len(rev_trend) < 2
      THEN [op |-> "burn_multiple", n |-> n_months, value |-> "None"]
      ELSE LET net_new_revenue == FSub(rev_trend[Len(rev_trend)].amount_usd,
                                       rev_trend[Len(rev_trend) - 1].amount_usd)
               recent_deltas == tail(diff(cash_df), n_months)
               avg_burn == FNeg(mean(recent_deltas))
               burn_multiple == IF net_new_revenue.n > 0
                                THEN FDiv(avg_burn, net_new_revenue) ELSE None
           IN  [op |-> "burn_multiple", n |-> n_months, value |-> "dict",
                avg_burn |-> round(avg_burn, 2),
                net_new_revenue |-> round(net_new_revenue, 2),
                burn_multiple |-> IF burn_multiple.k # "none"
                                  THEN round(burn_multiple, 2) ELSE None]

get_opex_ratio(combined_df, month) ==
  LET IsRev(r) == r.month = month /\ r.type = "actual" /\ r.account_category = Revenue
      IsOpex(r) == r.month = month /\ r.type = "actual" /\ startswith(r.account_category, Opex)
      revenue == sum(SelectSeq(combined_df, IsRev))
      opex == sum(SelectSeq(combined_df, IsOpex))
      ratio == IF revenue.n # 0 THEN FScale(FDiv(opex, revenue), 100) ELSE None
  IN  [op |-> "opex_ratio", month |-> month, opex |-> round(opex, 2),
       revenue |-> round(revenue, 2),
       opex_ratio_pct |-> IF ratio.k # "none" THEN round(ratio, 2) ELSE None]

\* The results get_entity_revenue may return (ties of the final sort in any
\* order).
get_entity_revenue(combined_df, month) ==
  LET IsRev(r) == r.month = month /\ r.type = "actual" /\ r.account_category = Revenue
      df == SelectSeq(combined_df, IsRev)
      keys == SortKeys({<<df[i].entity>> : i \in 1..Len(df)})
      breakdown == [g \in 1..Len(keys) |->
                     LET InGroup(r) == <<r.entity>> = keys[g]
                     IN  [entity |-> keys[g][1], amount_usd |-> sum(SelectSeq(df, InGroup))]]
  IN  {[op |-> "entity_revenue", month |-> month, rows |-> rows] :
         rows \in sort_values_desc(breakdown)}

CashRunway ==
  /\ pc = "loaded"
  /\ \E sorted \in sort_values_month(cash) : result' = get_cash_runway(sorted)
  /\ pc' = "answered"
  /\ UNCHANGED <<fx, actuals, budget, combined, cash, query>>

BurnMultiple ==
  /\ pc = "loaded"
  /\ \E n \in 1..MaxN : \E sorted \in sort_values_month(cash) :
       result' = get_burn_multiple(combined, sorted, n)
  /\ pc' = "answered"
  /\ UNCHANGED <<fx, actuals, budget, combined, cash, query>>

OpexRatio ==
  /\ pc = "loaded"
  /\ \E m \in Months : result' = get_opex_ratio(combined, m)
  /\ pc' = "answered"
  /\ UNCHANGED <<fx, actuals, budget, combined, cash, query>>

EntityRevenue ==
  /\ pc = "loaded"
  /\ \E m \in Months : result' \in get_entity_revenue(combined, m)
  /\ pc' = "answered"
  /\ UNCHANGED <<fx, actuals, budget, combined, cash, query>>

\* The cash sheet: one row per (month, entity) pair, in any order.
CashMonths == {1, 2, 3}
Entities == {"A", "B"}
CashValues == {10, 30}

CashRows == {[month |-> m, entity |-> e, cash_usd |-> Num(c)] :
               m \in CashMonths, e \in Entities, c \in CashValues}

CashStreams(maxRows) ==
  {t \in SeqsUpTo(CashRows, maxRows) :
     \A i \in 1..Len(t) : \A j \in 1..Len(t) :
       i # j => (t[i].month # t[j].month \/ t[i].entity # t[j].entity)}

RevenueRow(m, a) ==
  [month |-> m, entity |-> "E", account_category |-> Revenue, type |-> "actual",
   amount_usd |-> Num(a)]

\* Ledgers for the burn multiple: no revenue, one period, rising, falling.
BurnLedgers ==
  {<<>>, <<RevenueRow(1, 2)>>, <<RevenueRow(1, 2), RevenueRow(2, 5)>>,
   <<RevenueRow(1, 5), RevenueRow(2, 2)>>}

InitCash ==
  /\ fx = <<>> /\ actuals = <<>> /\ budget = <<>>
  /\ query = <<>>
  /\ cash \in CashStreams(MaxCash)
  /\ combined \in BurnLedgers
  /\ pc = "loaded"
  /\ result = NoResult

NextCash == CashRunway \/ BurnMultiple

SpecCash == InitCash /\ [][NextCash]_vars

(* ----------------------- every metric function ------------------------ *)
InitMetrics ==
  /\ fx = <<>> /\ actuals = <<>> /\ budget = <<>>
  /\ query = <<>>
  /\ cash \in CashStreams(MaxMetricsRows)
  /\ combined \in SeqsUpTo(TrendLedgerRows \cup OpexLedgerRows, MaxMetricsRows)
  /\ pc = "loaded"
  /\ result = NoResult

NextMetrics ==
  \/ RevenueVsBudget
  \/ GrossMarginTrend
  \/ OpexBreakdown
  \/ CashRunway
  \/ EbitdaTrend
  \/ OpexRatio
  \/ RevenueGrowth
  \/ BurnMultiple
  \/ EntityRevenue

SpecMetrics == InitMetrics /\ [][NextMetrics]_vars


(* ======================== claims: load_data =========================== *)
\* C1: after load_data's currency normalisation every distinct month of
\* the rate table has at least one row with currency USD and rate 1.0,
\* also when only some months carried such a row before.
C1_EveryMonthHasUsdIdentity ==
  pc = "raw" \/
  \A i \in 1..Len(fx) :
    \E j \in 1..Len(fx) :
      fx[j].month = fx[i].month /\ fx[j].currency = "USD" /\ fx[j].rate_to_usd = 1

\* Whether the ledger holds a Revenue row of month m and entry type t whose
\* amount_usd is missing.
HasMissingRevenue(m, t) ==
  \E i \in 1..Len(combined) :
    /\ combined[i].month = m
    /\ combined[i].account_category = Revenue
    /\ combined[i].type = t
    /\ isna(combined[i].amount_usd)

\* C2: a ledger row without a matching rate has a missing amount_usd, and
\* revenue_vs_budget for its month reports the affected total as undefined
\* instead of a number computed as if the row were zero.
C2_MissingRateIsSurfaced ==
  result.op = "revenue_vs_budget" =>
    /\ HasMissingRevenue(result.month, "actual") => ~IsNum(result.actual)
    /\ HasMissingRevenue(result.month, "budget") => ~IsNum(result.budget)

(* ==================== claims: revenue_vs_budget ======================= *)
RECURSIVE SetSum(_, _)
\* The sum of f over the finite index set S.
SetSum(S, f) ==
  IF S = {} THEN 0
  ELSE LET x == CHOOSE y \in S : TRUE IN f[x] + SetSum(S \ {x}, f)

\* The total of the defined Revenue amounts of month m and entry type t.
RevenueTotal(m, t) ==
  LET S == {i \in 1..Len(combined) :
              /\ combined[i].month = m
              /\ combined[i].account_category = Revenue
              /\ combined[i].type = t
              /\ IsNum(combined[i].amount_usd)}
  IN  SetSum(S, [i \in S |-> combined[i].amount_usd.n])

\* x is the rational a / b (b # 0) rounded to the nearest 1/10^digits.
IsRounded(x, a, b, digits) ==
  /\ IsNum(x)
  /\ x.d = Pow10(digits)
  /\ 2 * Abs(x.n * b - a * Pow10(digits)) <= Abs(b)

\* C3: revenue_vs_budget returns actual and budget as the Revenue totals of
\* the month by entry type, variance = actual - budget, and variance_pct =
\* variance / budget * 100 (to 2 decimals) when budget # 0; when the budget
\* total is 0, with or without budget rows, variance_pct is None.
C3_RevenueVsBudget ==
  result.op = "revenue_vs_budget" =>
    LET a == RevenueTotal(result.month, "actual")
        b == RevenueTotal(result.month, "budget")
    IN  /\ FEq(result.actual, Num(a))
        /\ FEq(result.budget, Num(b))
        /\ FEq(result.variance, Num(a - b))
        /\ b = 0 => result.variance_pct = None
        /\ b # 0 => IsRounded(result.variance_pct, (a - b) * 100, b, 2)

\* Actual 1 against budget 3 in one month: variance -2, -66.67 percent.
C3_Witness ==
  /\ result.op = "revenue_vs_budget"
  /\ RevenueTotal(result.month, "actual") = 1
  /\ RevenueTotal(result.month, "budget") = 3
  /\ result.variance_pct = Rat(-6667, 100)

(* ========================= claims: trends ============================= *)
\* C7: in gross_margin_trend every period whose actual revenue is 0 has
\* gm_pct reported as an explicit null (None), never as 0, an infinity or
\* NaN, whatever the period's COGS is.
C7_ZeroRevenueGmPctIsNull ==
  result.op = "gross_margin_trend" =>
    \A i \in 1..Len(result.rows) :
      FIsZero(result.rows[i].revenue) => result.rows[i].gm_pct = None

\* The months that have actual Revenue rows, and those that have actual rows.
RevenueMonths ==
  {combined[i].month : i \in {j \in 1..Len(combined) :
     combined[j].type = "actual" /\ combined[j].account_category = Revenue}}

ActualMonths ==
  {combined[i].month : i \in {j \in 1..Len(combined) : combined[j].type = "actual"}}

\* g is the percent change from the total prev (# 0) to the total cur.
IsPctChange(g, prev, cur) ==
  IsNum(g) /\ g.n * prev = (cur - prev) * 100 * g.d

\* C8 as stated: for n >= 1 the first record of the window returned by
\* revenue_growth has a null growth_pct, and each later record's growth_pct
\* is the percent change from the preceding record's total.
C8_FirstOfWindowIsNull ==
  (result.op = "revenue_growth" /\ result.n >= 1 /\ Len(result.rows) >= 1) =>
    /\ isna(result.rows[1].growth_pct)
    /\ \A i \in 2..Len(result.rows) :
         LET prev == RevenueTotal(result.rows[i - 1].month, "actual")
             cur == RevenueTotal(result.rows[i].month, "actual")
         IN  prev # 0 => IsPctChange(result.rows[i].growth_pct, prev, cur)

\* C8 as amended: growth_pct is computed over all revenue periods of the
\* ledger before the window is cut.  A record's growth_pct is null when its
\* period is the ledger's first revenue period, so the window's first record
\* is null only when the window holds every revenue period; otherwise, and
\* for every later record, it is the percent change from the total of the
\* preceding revenue period (for the first record: the period just before
\* the window), that total being nonzero.
C8_GrowthOverWholeSeries ==
  (result.op = "revenue_growth" /\ result.n >= 1) =>
    \A i \in 1..Len(result.rows) :
      LET m == result.rows[i].month
          before == {p \in RevenueMonths : p < m}
          cur == RevenueTotal(m, "actual")
      IN  /\ FEq(result.rows[i].amount_usd, Num(cur))
          /\ before = {} => isna(result.rows[i].growth_pct)
          /\ before # {} =>
               LET q == CHOOSE p \in before : \A r \in before : r <= p
                   prev == RevenueTotal(q, "actual")
               IN  /\ i > 1 => q = result.rows[i - 1].month
                   /\ i = 1 => q \notin {result.rows[j].month : j \in 1..Len(result.rows)}
                   /\ prev # 0 => IsPctChange(result.rows[i].growth_pct, prev, cur)
          /\ (i = 1 /\ Len(result.rows) = Cardinality(RevenueMonths)) => before = {}

\* A window of one record cut from a ledger with an earlier revenue period:
\* the record carries a defined, nonzero growth.
C8_Witness ==
  /\ result.op = "revenue_growth"
  /\ result.n = 1
  /\ Len(result.rows) = 1
  /\ Cardinality(RevenueMonths) >= 2
  /\ IsNum(result.rows[1].growth_pct)
  /\ result.rows[1].growth_pct.n # 0

\* The periods a trend function has to choose from.
Available(op) == IF op = "revenue_growth" THEN RevenueMonths ELSE ActualMonths

\* C9: the sequence returned by gross_margin_trend, ebitda_trend and
\* revenue_growth for n >= 0 is strictly ascending by period, holds only
\* periods with matching actual rows, and is exactly the last
\* min(n, available periods) of them.
C9_TrendWindow ==
  result.op \in {"gross_margin_trend", "ebitda_trend", "revenue_growth"} =>
    LET rows == result.rows
        window == {rows[i].month : i \in 1..Len(rows)}
        avail == Available(result.op)
    IN  /\ \A i \in 1..Len(rows) : \A j \in 1..Len(rows) :
             i < j => rows[i].month < rows[j].month
        /\ window \subseteq avail
        /\ Len(rows) = Min(result.n, Cardinality(avail))
        /\ \A m \in avail \ window : \A w \in window : m < w

\* Three periods with actual rows, given latest first, and a window of two.
C9_Witness ==
  /\ result.op = "ebitda_trend"
  /\ result.n = 2
  /\ Cardinality(ActualMonths) = 3
  /\ Len(result.rows) = 2
  /\ combined[1].month = 3

(* ======================= claims: opex_breakdown ======================= *)
OpexPrefix == Opex \o <<":">>

\* C10: opex_breakdown considers exactly the actual rows of the month whose
\* account_category starts with "Opex:", labels each with everything after
\* the first ":" ("Opex:A:B" is "A:B"; "Opex" and "OpexOther" are no Opex
\* rows), sums amount_usd per label and returns the rows in descending
\* order of amount: empty when the month has no such rows.
C10_OpexBreakdown ==
  result.op = "opex_breakdown" =>
    LET S == {i \in 1..Len(combined) :
                /\ combined[i].month = result.month
                /\ combined[i].type = "actual"
                /\ startswith(combined[i].account_category, OpexPrefix)}
        Label(i) == SubSeq(combined[i].account_category, Len(OpexPrefix) + 1,
                           Len(combined[i].account_category))
        labels == {Label(i) : i \in S}
        rows == result.rows
    IN  /\ Len(rows) = Cardinality(labels)
        /\ {rows[k].category : k \in 1..Len(rows)} = labels
        /\ \A k \in 1..Len(rows) :
             LET T == {i \in S : Label(i) = rows[k].category}
             IN  FEq(rows[k].amount_usd, Num(SetSum(T, [i \in T |-> combined[i].amount_usd.n])))
        /\ \A j \in 1..Len(rows) : \A k \in 1..Len(rows) :
             j < k => rows[j].amount_usd.n >= rows[k].amount_usd.n

(* ========================= claims: cash runway ======================== *)
Raised(r) == "raised" \in DOMAIN r

\* The cash balance of a period: the total over its (period, entity) rows.
PeriodBalance(m) ==
  LET S == {i \in 1..Len(cash) : cash[i].month = m}
  IN  SetSum(S, [i \in S |-> cash[i].cash_usd.n])

CashPeriods == SortAsc({cash[i].month : i \in 1..Len(cash)})

\* The sum and the number of the last three period-over-period deltas.
PeriodDeltaCount == Min(RunwayWindow, Len(CashPeriods) - 1)

PeriodDeltaSum ==
  LET ps == CashPeriods
      S == (Len(ps) - PeriodDeltaCount + 1)..Len(ps)
  IN  SetSum(S, [i \in S |-> PeriodBalance(ps[i]) - PeriodBalance(ps[i - 1])])

\* x is cash / burn rounded to the nearest tenth, burn = bn / bd > 0.
IsRunway(x, c, bn, bd) == IsRounded(x, c * bd, bn, 1)

\* C4: cash_runway reports the "not burning" sentinel together with
\* avg_burn = 0 exactly when the average burn is <= 0 or undefined (fewer
\* than 2 cash periods); in every other case avg_burn > 0 and runway_months
\* is cash_now / avg_burn rounded to 1 decimal.
C4_SentinelIffNotBurning ==
  result.op = "cash_runway" =>
    /\ ~Raised(result)
    /\ (result.runway_months = NotBurning) <=> FIsZero(result.avg_burn)
    /\ Len(CashPeriods) < 2 => result.runway_months = NotBurning
    /\ (Len(CashPeriods) >= 2 /\ Len(CashPeriods) = Len(cash)) =>
         ((result.runway_months = NotBurning) <=> (PeriodDeltaSum >= 0))
    /\ result.runway_months # NotBurning =>
         /\ IsNum(result.avg_burn) /\ result.avg_burn.n > 0
         /\ IsRunway(result.runway_months, result.cash_now.n,
                     result.avg_burn.n, result.avg_burn.d)

\* C5: for every cash stream with one row per (period, entity) pair, also
\* with several entities in a period, cash_runway takes cash_now as the
\* latest period's balance and avg_burn as the negative of the mean of the
\* last 3 deltas between consecutive periods (reported as 0 when that mean
\* is not a burn).
C5_PeriodOverPeriodBurn ==
  (result.op = "cash_runway" /\ ~Raised(result)) =>
    /\ FEq(result.cash_now, Num(PeriodBalance(CashPeriods[Len(CashPeriods)])))
    /\ IF Len(CashPeriods) >= 2 /\ PeriodDeltaSum < 0
       THEN FEq(result.avg_burn, Rat(-PeriodDeltaSum, PeriodDeltaCount))
       ELSE FIsZero(result.avg_burn)

\* C6: every metric function returns a result value for every ledger and
\* cash stream, the empty ones and a single-period cash stream included:
\* no call ends in a raised error.
C6_NoCallRaises == ~Raised(result)


(* ------------------------- agent/planner.py --------------------------- *)
\* The question text is a sequence of one-character strings.
UpperCase == <<"A", "B", "C", "D", "E", "F", "G", "H", "I", "J", "K", "L", "M">> \o
             <<"N", "O", "P", "Q", "R", "S", "T", "U", "V", "W", "X", "Y", "Z">>
LowerCase == <<"a", "b", "c", "d", "e", "f", "g", "h", "i", "j", "k", "l", "m">> \o
             <<"n", "o", "p", "q", "r", "s", "t", "u", "v", "w", "x", "y", "z">>

\* str.lower
lower(s) ==
  [i \in 1..Len(s) |->
     IF \E k \in 1..Len(UpperCase) : UpperCase[k] = s[i]
     THEN LowerCase[CHOOSE k \in 1..Len(UpperCase) : UpperCase[k] = s[i]]
     ELSE s[i]]

kw_revenue == <<"r", "e", "v", "e", "n", "u", "e">>
kw_budget == <<"b", "u", "d", "g", "e", "t">>
kw_gross_margin == <<"g", "r", "o", "s", "s", " ", "m", "a", "r", "g", "i", "n">>
kw_gm == <<"g", "m">>
kw_opex == <<"o", "p", "e", "x">>
kw_cash == <<"c", "a", "s", "h">>
kw_runway == <<"r", "u", "n", "w", "a", "y">>

\* classify_query with the opex test ahead of the revenue-and-budget test.
classify_query_opexFirst(text) ==
  LET q == lower(text)
  IN  IF Contains(q, kw_opex) THEN "opex_breakdown"
      ELSE IF Contains(q, kw_revenue) /\ Contains(q, kw_budget)
      THEN "revenue_vs_budget"
      ELSE IF Contains(q, kw_gross_margin) \/ Contains(q, kw_gm)
      THEN "gross_margin_trend"
      ELSE IF Contains(q, kw_cash) /\ Contains(q, kw_runway) THEN "cash_runway"
      ELSE "None"

\* classify_query: keyword tests on the lower-cased text, in source order.
classify_query(text) ==
  LET q == lower(text)
  IN  IF Contains(q, kw_revenue) /\ Contains(q, kw_budget)
      THEN "revenue_vs_budget"
      ELSE IF Contains(q, kw_gross_margin) \/ Contains(q, kw_gm)
      THEN "gross_margin_trend"
      ELSE IF Contains(q, kw_opex) THEN "opex_breakdown"
      ELSE IF Contains(q, kw_cash) /\ Contains(q, kw_runway) THEN "cash_runway"
      ELSE "None"

ClassifyQuery ==
  /\ pc = "asked"
  /\ result' = [op |-> "classify_query", intent |-> classify_query(query)]
  /\ pc' = "answered"
  /\ UNCHANGED <<fx, actuals, budget, combined, cash, query>>

\* Questions are up to MaxWords pieces written one after the other; a
\* keyword can also arise across two pieces ("seg" + "ment" holds "gm").
MaxWords == 3

RECURSIVE Texts(_, _)
Texts(words, n) ==
  IF n = 0 THEN {<<>>}
  ELSE LET shorter == Texts(words, n - 1)
       IN  shorter \cup {t \o w : t \in shorter, w \in words}

IntentWords ==
  {<<"R", "e", "v", "e", "n", "u", "e">>,
   <<"B", "U", "D", "G", "E", "T">>,
   <<"G", "r", "o", "s", "s", " ", "M", "a", "r", "g", "i", "n">>,
   <<"g", "r", "o", "s", "s">>,
   <<"m", "a", "r", "g", "i", "n">>,
   <<"G", "M">>,
   <<"s", "e", "g">>,
   <<"m", "e", "n", "t">>,
   <<"O", "p", "E", "x">>,
   <<"c", "a", "s", "h">>,
   <<"R", "u", "n", "w", "a", "y">>,
   <<" ">>}


Digits == <<"0", "1", "2", "3", "4", "5", "6", "7", "8", "9">>
isdigit(c) == \E k \in 1..Len(Digits) : Digits[k] = c
islower(c) == \E k \in 1..Len(LowerCase) : LowerCase[k] = c
isspace(c) == c \in {" ", "\t", "\n"}

RECURSIVE int(_)
\* int() of a string of decimal digits.
int(s) ==
  IF s = <<>> THEN 0
  ELSE 10 * int(SubSeq(s, 1, Len(s) - 1))
       + (CHOOSE k \in 1..Len(Digits) : Digits[k] = s[Len(s)]) - 1

\* re.search(r"(\d{4})[-/](\d{1,2})", query): the leftmost match, the month
\* group taking two digits when two are there.
NumericAt(s, i) ==
  /\ i + 5 <= Len(s)
  /\ \A j \in 0..3 : isdigit(s[i + j])
  /\ s[i + 4] \in {"-", "/"}
  /\ isdigit(s[i + 5])

search_numeric(s) ==
  LET at == {i \in 1..Len(s) : NumericAt(s, i)}
  IN  IF at = {} THEN [matched |-> FALSE]
      ELSE LET i == CHOOSE x \in at : \A y \in at : x <= y
               e == IF i + 6 <= Len(s) /\ isdigit(s[i + 6]) THEN i + 6 ELSE i + 5
           IN  [matched |-> TRUE, year |-> int(SubSeq(s, i, i + 3)),
                month |-> int(SubSeq(s, i + 5, e))]

\* The twelve names of the month pattern; the position is month_num.
MonthNames ==
  <<<<"j", "a", "n">>, <<"f", "e", "b">>, <<"m", "a", "r">>,
    <<"a", "p", "r">>, <<"m", "a", "y">>, <<"j", "u", "n">>,
    <<"j", "u", "l">>, <<"a", "u", "g">>, <<"s", "e", "p">>,
    <<"o", "c", "t">>, <<"n", "o", "v">>, <<"d", "e", "c">>>>

\* First position from i on that is past the end or fails the class.
LettersEnd(q, i) ==
  CHOOSE j \in i..(Len(q) + 1) :
    /\ j = Len(q) + 1 \/ ~islower(q[j])
    /\ \A k \in i..(j - 1) : islower(q[k])

SpacesEnd(q, i) ==
  CHOOSE j \in i..(Len(q) + 1) :
    /\ j = Len(q) + 1 \/ ~isspace(q[j])
    /\ \A k \in i..(j - 1) : isspace(q[k])

\* re.search(r"(jan|...|dec)[a-z]*\s+(\d{4})", query.lower()) at position i:
\* a month name, the rest of the word, white space, four digits.
NameAt(q, i) ==
  /\ i + 2 <= Len(q)
  /\ \E k \in 1..Len(MonthNames) : SubSeq(q, i, i + 2) = MonthNames[k]
  /\ LET a == LettersEnd(q, i + 3)
         b == SpacesEnd(q, a)
     IN  /\ b > a
         /\ b + 3 <= Len(q)
         /\ \A j \in 0..3 : isdigit(q[b + j])

search_name(q) ==
  LET at == {i \in 1..Len(q) : NameAt(q, i)}
  IN  IF at = {} THEN [matched |-> FALSE]
      ELSE LET i == CHOOSE x \in at : \A y \in at : x <= y
               b == SpacesEnd(q, LettersEnd(q, i + 3))
           IN  [matched |-> TRUE, year |-> int(SubSeq(q, b, b + 3)),
                month |-> CHOOSE k \in 1..Len(MonthNames) :
                            SubSeq(q, i, i + 2) = MonthNames[k]]

\* pd.Period(year=, month=, freq="M"): the monthly ordinal is computed from
\* the two fields, so a month outside 1..12 lands in a neighbouring year;
\* a pandas that range-checks the field raises ValueError instead.
MonthsPerYear == 12
Period(year, month) ==
  LET ordinal == year * MonthsPerYear + month - 1
      p == [year |-> ordinal \div MonthsPerYear,
            month |-> (ordinal % MonthsPerYear) + 1]
  IN  IF month \in 1..MonthsPerYear THEN {p}
      ELSE {p, [raised |-> "ValueError"]}

\* The decimal digits of n, zero-padded to width.
zfill(n, width) ==
  [i \in 1..width |->
     Digits[((n \div (10 ^ (width - i))) % 10) + 1]]

\* Period.strftime("%Y-%m")
strftime(p) == zfill(p.year, 4) \o <<"-">> \o zfill(p.month, 2)

\* The None that extract_month returns when neither pattern is found.
NoMonth == <<"None">>

\* extract_month: the results the call can end in.
extract_month(text) ==
  LET m1 == search_numeric(text)
      m2 == search_name(lower(text))
      outcome(y, m) ==
        {IF "raised" \in DOMAIN p
         THEN [op |-> "extract_month", raised |-> "ValueError"]
         ELSE [op |-> "extract_month", value |-> strftime(p)] :
           p \in Period(y, m)}
  IN  IF m1.matched THEN outcome(m1.year, m1.month)
      ELSE IF m2.matched THEN outcome(m2.year, m2.month)
      ELSE {[op |-> "extract_month", value |-> NoMonth]}

ExtractMonth ==
  /\ pc = "asked"
  /\ result' \in extract_month(query)
  /\ pc' = "answered"
  /\ UNCHANGED <<fx, actuals, budget, combined, cash, query>>

MonthWords ==
  {<<"2", "0", "2", "3">>,
   <<"-">>,
   <<"/">>,
   <<"1", "3">>,
   <<"0", "0">>,
   <<"6">>,
   <<"1", "2">>,
   <<"J", "u", "n", "e">>,
   <<"D", "E", "C">>,
   <<" ">>,
   <<"i", "n">>}

InitPlanner ==
  /\ fx = <<>> /\ actuals = <<>> /\ budget = <<>> /\ cash = <<>>
  /\ combined = <<>>
  /\ query \in Texts(IntentWords, MaxWords) \cup Texts(MonthWords, MaxWords)
  /\ pc = "asked"
  /\ result = NoResult

NextPlanner == ClassifyQuery \/ ExtractMonth

SpecPlanner == InitPlanner /\ [][NextPlanner]_vars


(* -------------------------- claims: planner --------------------------- *)
\* Two characters that are the same letter in either case.
SameLetter(a, b) ==
  a = b \/ \E k \in 1..Len(UpperCase) : {a, b} = {UpperCase[k], LowerCase[k]}

\* The question holds the keyword somewhere, whatever the case.
Mentions(kw) ==
  \E i \in 0..(Len(query) - Len(kw)) :
    \A j \in 1..Len(kw) : SameLetter(query[i + j], kw[j])

AsksRevenueVsBudget == Mentions(kw_revenue) /\ Mentions(kw_budget)
AsksGrossMargin == Mentions(kw_gross_margin) \/ Mentions(kw_gm)
AsksOpex == Mentions(kw_opex)
AsksCashRunway == Mentions(kw_cash) /\ Mentions(kw_runway)

\* C11: classify_query answers every text, ignores case and takes the first
\* test that matches: revenue_vs_budget when the text holds "revenue" and
\* "budget" whatever else it holds; else gross_margin_trend when it holds
\* "gross margin" or "gm"; else opex_breakdown when it holds "opex"; else
\* cash_runway when it holds "cash" and "runway"; and None exactly when none
\* of the four tests matches.
C11_FirstMatchWins ==
  result.op = "classify_query" =>
    /\ result.intent \in {"revenue_vs_budget", "gross_margin_trend",
                          "opex_breakdown", "cash_runway", "None"}
    /\ AsksRevenueVsBudget => result.intent = "revenue_vs_budget"
    /\ (~AsksRevenueVsBudget /\ AsksGrossMargin) =>
         result.intent = "gross_margin_trend"
    /\ (~AsksRevenueVsBudget /\ ~AsksGrossMargin /\ AsksOpex) =>
         result.intent = "opex_breakdown"
    /\ (~AsksRevenueVsBudget /\ ~AsksGrossMargin /\ ~AsksOpex
        /\ AsksCashRunway) => result.intent = "cash_runway"
    /\ (result.intent = "None") <=>
         ~(AsksRevenueVsBudget \/ AsksGrossMargin \/ AsksOpex \/ AsksCashRunway)

\* A question in mixed case that asks for revenue against budget and also
\* names opex has been classified as revenue_vs_budget.
C11_Witness ==
  /\ result.op = "classify_query"
  /\ AsksRevenueVsBudget /\ AsksOpex
  /\ query # lower(query)
  /\ result.intent = "revenue_vs_budget"

\* The text is a canonical YYYY-MM period: four digits, a dash and a
\* two-digit month from 01 to 12.
IsCanonicalMonth(s) ==
  /\ Len(s) = 7
  /\ \A i \in {1, 2, 3, 4, 6, 7} : isdigit(s[i])
  /\ s[5] = "-"
  /\ int(SubSeq(s, 6, 7)) \in 1..12

\* The question holds a numeric YYYY-sep-M[M] pattern whose month number
\* is not a month.
NumericMonthOutOfRange ==
  /\ search_numeric(query).matched
  /\ search_numeric(query).month \notin 1..12

\* C12: extract_month answers every text with "not found" or a canonical
\* YYYY-MM period and never raises; a text whose numeric pattern carries a
\* month number outside 1..12 ("2023-13", "2023-00") is answered "not found".
C12_MalformedMonthNotFound ==
  result.op = "extract_month" =>
    /\ ~Raised(result)
    /\ result.value = NoMonth \/ IsCanonicalMonth(result.value)
    /\ NumericMonthOutOfRange => result.value = NoMonth


(* ------------------------ claims: burn multiple ----------------------- *)
\* Revenue of the last revenue period minus that of the one before it
\* (for a ledger with at least two revenue periods).
NetNewRevenue ==
  LET ms == SortAsc(RevenueMonths)
  IN  RevenueTotal(ms[Len(ms)], "actual") - RevenueTotal(ms[Len(ms) - 1], "actual")

\* The call reports no burn multiple: it returned None, or a record whose
\* burn_multiple is None.
BurnMultipleUndefined ==
  result.value = "None" \/ result.burn_multiple = None

\* C13: burn_multiple is undefined (None) when fewer than 2 revenue periods
\* are available or net_new_revenue <= 0, and also when the cash stream has
\* too few periods for any delta (never a non-finite number there); in
\* every other case it is avg_burn / net_new_revenue (to 2 decimals), with
\* avg_burn the negated mean of the last n cash deltas.
C13_BurnMultipleUndefined ==
  result.op = "burn_multiple" =>
    LET few == Cardinality(RevenueMonths) < 2
        ps == CashPeriods
        k == Min(result.n, Len(ps) - 1)
        S == (Len(ps) - k + 1)..Len(ps)
        deltas == SetSum(S, [i \in S |-> PeriodBalance(ps[i]) - PeriodBalance(ps[i - 1])])
    IN  /\ (few \/ NetNewRevenue <= 0) => BurnMultipleUndefined
        /\ Len(ps) < 2 => BurnMultipleUndefined
        /\ (~few /\ NetNewRevenue > 0 /\ Len(ps) >= 2 /\ Len(ps) = Len(cash)) =>
             /\ ~BurnMultipleUndefined
             /\ IsRounded(result.burn_multiple, -deltas, k * NetNewRevenue, 2)


(* ------------------------ claims: unified ledger ---------------------- *)
\* C14: for every actuals, budget and rate table the unified ledger made by
\* load_data holds exactly one entry per raw row (entries = actuals rows +
\* budget rows), also when the rate table ends up with two rows for one
\* (period, currency) key, as when a USD row with a rate other than 1.0
\* makes the normaliser append a second USD row for that period.
C14_OneEntryPerRawRow ==
  pc # "raw" => Len(combined) = Len(actuals) + Len(budget)


(* ------------------- the three Opex figures of a month ---------------- *)
\* Ledgers whose account_category is an ordinary "Opex:<label>", a label
\* without a colon, or a name that holds "Opex" further in.
CapOpexA == <<"C", "a", "p">> \o OpexA

OpexFigureCategories == {OpexA, OpexB, OpexOther, CapOpexA, Revenue}

OpexFigureRows ==
  {[month |-> m, entity |-> "E", account_category |-> c, type |-> "actual",
    amount_usd |-> Num(a)] : m \in Months, c \in OpexFigureCategories, a \in {1, 2}}
  \cup
  {[month |-> m, entity |-> "E", account_category |-> OpexA, type |-> "budget",
    amount_usd |-> Num(1)] : m \in Months}

InitOpexFigures ==
  /\ fx = <<>> /\ actuals = <<>> /\ budget = <<>> /\ cash = <<>>
  /\ query = <<>>
  /\ combined \in SeqsUpTo(OpexFigureRows, MaxOpexRows)
  /\ pc = "loaded"
  /\ result = NoResult

NextOpexFigures == OpexBreakdown \/ OpexRatio \/ EbitdaTrend

SpecOpexFigures == InitOpexFigures /\ [][NextOpexFigures]_vars

(* ------------------------ claims: Opex figures ------------------------ *)
\* The month's Opex as each function reports it on the ledger.
BreakdownOpex(m) ==
  {sum(b.rows) : b \in get_opex_breakdown(combined, m)}

RatioOpex(m) == get_opex_ratio(combined, m).opex

EbitdaOpex(m) ==
  LET rows == get_ebitda_trend(combined, Len(combined)).rows
      i == CHOOSE j \in 1..Len(rows) : rows[j].month = m
  IN  rows[i].opex

\* C15: for every ledger and every month with actual rows the three Opex
\* figures agree: the sum of the amounts opex_breakdown returns for the
\* month, the opex field of opex_ratio for the month, and the opex value
\* of that period in ebitda_trend are equal.
C15_OpexFiguresAgree ==
  /\ result.op = "opex_breakdown" /\ result.month \in ActualMonths =>
       /\ FEq(sum(result.rows), RatioOpex(result.month))
       /\ FEq(sum(result.rows), EbitdaOpex(result.month))
  /\ result.op = "opex_ratio" /\ result.month \in ActualMonths =>
       /\ \A s \in BreakdownOpex(result.month) : FEq(result.opex, s)
       /\ FEq(result.opex, EbitdaOpex(result.month))
  /\ result.op = "ebitda_trend" =>
       \A i \in 1..Len(result.rows) :
         /\ \A s \in BreakdownOpex(result.rows[i].month) : FEq(result.rows[i].opex, s)
         /\ FEq(result.rows[i].opex, RatioOpex(result.rows[i].month))

====
